---------------------------- MODULE Spec2Model ----------------------------
(***************************************************************************)
(* Model of the flowsense analysis core:                                   *)
(*   - utils/geometry.py        (punto_en_poligono, cruza_linea, ...)      *)
(*   - persistence/csv_writer.py (CSVWriter)                               *)
(*   - database/service.py      (VideoAnalysisService)                     *)
(*   - video_unified.py         (procesar_video_unificado,                 *)
(*                               analizar_objeto_con_zonas)                *)
(*   - tracking.py              (realizar_tracking)                        *)
(* One action processes one video frame: every detection of the frame goes *)
(* through the whole loop body, in the order the tracker lists them.       *)
(***************************************************************************)
EXTENDS Integers, Sequences, FiniteSets, TLC

VARIABLES
    pc,                  \* "loop" | "done" | "crashed" (an exception left the frame loop)
    frame_count,
    enable_zones,        \* option of procesar_video_unificado
    persistence_writer,  \* "None" | "CSVWriter"
    db_service,          \* "unbound" | "None" | "VideoAnalysisService"
    zone_name_mapping,   \* <<>> while the name is unbound, <<mapping>> once assigned
    id_map, next_id, unique_object_ids, trail,
    trayectorias, ids_en_zona, ids_cruzaron_linea, line_counters,
    csv_writer,          \* fields of the CSVWriter instance
    csv_files,           \* rows of the CSV files on disk
    db_calls,            \* calls submitted to db_service.save_* (in order)
    db_tables,           \* rows of the database tables
    ideal,               \* the session a run without sink failures would be in
    tracking,            \* locals of realizar_tracking
    video,               \* the frames read so far: the raw ids each one listed
    zones_json,          \* content of the zones configuration file
    loaded,              \* <<>> before, <<result>> after cargar_zonas_desde_json
    opt,                 \* fields of an OptimizedVideoAnalysisService instance
    geo                  \* a call of the geometry functions and what it returned

vars == << pc, frame_count, enable_zones, persistence_writer, db_service,
           zone_name_mapping, id_map, next_id, unique_object_ids, trail,
           trayectorias, ids_en_zona, ids_cruzaron_linea, line_counters,
           csv_writer, csv_files, db_calls, db_tables, ideal, tracking, video,
           zones_json, loaded, opt, geo >>

----------------------------------------------------------------------------
(* Bounds of the model *)

\* frames of a session with two entities
MaxFrames == 2
\* frames of a session with a single entity
MaxFramesSolo == 6
\* frames of a session whose sinks may fail
MaxFramesFault == 2
\* frames of a session fed to both tracking programs
MaxFramesTrack == 6
\* frames of a session started with any configuration
MaxFramesConfig == 3
\* entries of each list (lines, polygons) of a zones configuration file
MaxEntries == 2
\* largest coordinate of the grid the geometry functions are evaluated on
GeoMax == 2
\* frames of a session in which one entity is detected in every frame
MaxFramesLong == 50
\* frames of a session also given to the optimized service
MaxFramesOpt == 2
\* frames of a session replayed with the detections of each frame reordered
MaxFramesPerm == 2
\* frames of a session with one entity also given to the optimized service
MaxFramesOptSolo == 4
\* analyses started on one optimized service, and frames given to each of them
MaxAnalisis == 2
MaxFramesCiclo == 1

\* raw tracker ids the detector may report
RawIds == {7, 8}
\* the single entity of the solo and fault sessions
SoloIds == {7}

\* bounding boxes the detector may report; their centers are (1,1), (3,1), (3,4)
Boxes == { <<0, 0, 3, 3>>, <<2, 0, 4, 3>>, <<2, 3, 5, 5>> }
\* the single box of the sessions fed to both tracking programs
TrackBoxes == { <<0, 0, 3, 3>> }
\* the boxes of the sessions replayed reordered; their centers are (1,1), (3,4)
PermBoxes == { <<0, 0, 3, 3>>, <<2, 3, 5, 5>> }

\* zone configuration of the session (old format: plain coordinate lists)
Lines == << << <<2, 0>>, <<2, 5>> >>,
            << <<0, 2>>, <<5, 2>> >> >>
Polygons == << << <<0, 0>>, <<2, 0>>, <<2, 2>>, <<0, 2>> >>,
               << <<0, 0>>, <<4, 0>>, <<4, 2>>, <<0, 2>> >> >>

\* places where a sink can fail: the three CSV files and the database cursor
FaultSites == {"frame_detections", "zone_events", "line_crossing_events", "db_cursor"}

----------------------------------------------------------------------------
(* Helpers *)

Min2(a, b) == IF a <= b THEN a ELSE b
Max2(a, b) == IF a >= b THEN a ELSE b

\* d[k] = v on a dict d
Put(d, k, v) == [x \in (DOMAIN d) \cup {k} |-> IF x = k THEN v ELSE d[x]]

\* d.get(k, default)
Get(d, k, default) == IF k \in DOMAIN d THEN d[k] ELSE default

EmptyDict == [x \in {} |-> 0]

\* the last n elements of a sequence (all of it when shorter)
LastN(q, n) == IF Len(q) <= n THEN q ELSE SubSeq(q, Len(q) - n + 1, Len(q))

\* every sequence without repetition over the set S
RECURSIVE Orderings(_)
Orderings(S) ==
    IF S = {} THEN { <<>> }
    ELSE UNION { { <<x>> \o r : r \in Orderings(S \ {x}) } : x \in S }

----------------------------------------------------------------------------
(* utils/geometry.py *)

RECURSIVE PuntoEnPoligonoLoop(_, _, _, _, _)
PuntoEnPoligonoLoop(point, polygon, i, p1, inside) ==
    LET n == Len(polygon) IN
    IF i > n THEN inside
    ELSE
      LET x == point[1]
          y == point[2]
          p2 == polygon[(i % n) + 1]
          p1x == p1[1]
          p1y == p1[2]
          p2x == p2[1]
          p2y == p2[2]
          \* x <= (y - p1y) * (p2x - p1x) / (p2y - p1y) + p1x, with p1y # p2y
          num == (y - p1y) * (p2x - p1x)
          den == p2y - p1y
          leq_xinters == IF den > 0 THEN (x - p1x) * den <= num
                                    ELSE (x - p1x) * den >= num
          toggles == /\ y > Min2(p1y, p2y)
                     /\ y <= Max2(p1y, p2y)
                     /\ x <= Max2(p1x, p2x)
                     /\ (p1x = p2x \/ leq_xinters)
      IN PuntoEnPoligonoLoop(point, polygon, i + 1, p2,
                             IF toggles THEN ~inside ELSE inside)

punto_en_poligono_sin_primer_lado(point, polygon) ==
    PuntoEnPoligonoLoop(point, polygon, 2, polygon[2], FALSE)

punto_en_poligono(point, polygon) ==
    PuntoEnPoligonoLoop(point, polygon, 0, polygon[1], FALSE)

ccw_no_estricto(A, B, C) ==
    (C[2] - A[2]) * (B[1] - A[1]) >= (B[2] - A[2]) * (C[1] - A[1])

ccw(A, B, C) == (C[2] - A[2]) * (B[1] - A[1]) > (B[2] - A[2]) * (C[1] - A[1])

cruza_linea(p1, p2, linea) ==
    LET a1 == linea[1]
        a2 == linea[2]
    IN /\ ccw(a1, p1, p2) # ccw(a2, p1, p2)
       /\ ccw(a1, a2, p1) # ccw(a1, a2, p2)

determinar_direccion_cruce_invertida(prev_pos, current_pos, line_coords) ==
    LET line_vector == << line_coords[2][1] - line_coords[1][1],
                          line_coords[2][2] - line_coords[1][2] >>
        movement_vector == << current_pos[1] - prev_pos[1],
                              current_pos[2] - prev_pos[2] >>
        cross_product == line_vector[1] * movement_vector[2]
                           - line_vector[2] * movement_vector[1]
    IN IF cross_product < 0 THEN "left_to_right" ELSE "right_to_left"

determinar_direccion_cruce_por_x(prev_pos, current_pos, line_coords) ==
    IF current_pos[1] > prev_pos[1] THEN "left_to_right" ELSE "right_to_left"

determinar_direccion_cruce(prev_pos, current_pos, line_coords) ==
    LET line_vector == << line_coords[2][1] - line_coords[1][1],
                          line_coords[2][2] - line_coords[1][2] >>
        movement_vector == << current_pos[1] - prev_pos[1],
                              current_pos[2] - prev_pos[2] >>
        cross_product == line_vector[1] * movement_vector[2]
                           - line_vector[2] * movement_vector[1]
    IN IF cross_product > 0 THEN "left_to_right" ELSE "right_to_left"

determinar_lado_del_punto_no_estricto(point, line_coords) ==
    LET line_vec == << line_coords[2][1] - line_coords[1][1],
                       line_coords[2][2] - line_coords[1][2] >>
        point_vec == << point[1] - line_coords[1][1],
                        point[2] - line_coords[1][2] >>
        cross_product == line_vec[1] * point_vec[2] - line_vec[2] * point_vec[1]
    IN IF cross_product >= 0 THEN "derecha" ELSE "izquierda"

determinar_lado_del_punto(point, line_coords) ==
    LET line_vec == << line_coords[2][1] - line_coords[1][1],
                       line_coords[2][2] - line_coords[1][2] >>
        point_vec == << point[1] - line_coords[1][1],
                        point[2] - line_coords[1][2] >>
        cross_product == line_vec[1] * point_vec[2] - line_vec[2] * point_vec[1]
    IN IF cross_product > 0 THEN "derecha" ELSE "izquierda"

----------------------------------------------------------------------------
(* persistence/csv_writer.py: CSVWriter.  A writer value is                *)
(* [w |-> fields of the instance, f |-> rows of the files, raised, result] *)

NewCSVWriter ==
    [ track_zone_status |-> EmptyDict,
      track_line_crossings |-> {},
      event_counter |-> 0,
      detection_counter |-> 0 ]

NewCSVFiles ==
    [ frame_detections |-> <<>>, zone_events |-> <<>>, line_crossing_events |-> <<>> ]

write_detection(w, f, detection, faults) ==
    LET w1 == [w EXCEPT !.detection_counter = @ + 1]
        row == [ id |-> << "detection", detection.track_id,
                           detection.frame_number, detection.timestamp_ms >>,
                 frame_number |-> detection.frame_number,
                 timestamp_ms |-> detection.timestamp_ms,
                 track_id |-> detection.track_id,
                 center |-> detection.center ]
    IN IF "frame_detections" \in faults
       THEN [ w |-> w1, f |-> f, raised |-> TRUE, result |-> FALSE ]
       ELSE [ w |-> w1, f |-> [f EXCEPT !.frame_detections = Append(@, row)],
              raised |-> FALSE, result |-> FALSE ]

write_zone_event(w, f, event, faults) ==
    LET w1 == [w EXCEPT !.event_counter = @ + 1]
        row == [ id |-> << "event", event.track_id,
                           event.frame_number, event.timestamp_ms >>,
                 zone_id |-> event.zone_id,
                 track_id |-> event.track_id,
                 event_type |-> event.event_type,
                 frame_number |-> event.frame_number,
                 timestamp_ms |-> event.timestamp_ms,
                 position |-> event.position ]
    IN IF "zone_events" \in faults
       THEN [ w |-> w1, f |-> f, raised |-> TRUE, result |-> FALSE ]
       ELSE [ w |-> w1, f |-> [f EXCEPT !.zone_events = Append(@, row)],
              raised |-> FALSE, result |-> FALSE ]

write_line_crossing(w, f, event, faults) ==
    LET w1 == [w EXCEPT !.event_counter = @ + 1]
        row == [ id |-> << "crossing", event.track_id,
                           event.frame_number, event.timestamp_ms >>,
                 line_id |-> event.line_id,
                 track_id |-> event.track_id,
                 direction |-> event.direction,
                 frame_number |-> event.frame_number,
                 timestamp_ms |-> event.timestamp_ms,
                 position |-> event.position ]
    IN IF "line_crossing_events" \in faults
       THEN [ w |-> w1, f |-> f, raised |-> TRUE, result |-> FALSE ]
       ELSE [ w |-> w1, f |-> [f EXCEPT !.line_crossing_events = Append(@, row)],
              raised |-> FALSE, result |-> FALSE ]

\* the guards of check_zone_event: is this call an entry, is it an exit
EsEntradaSinDedup(current_zones, zone_id, is_in_zone) ==
    is_in_zone

EsEntrada(current_zones, zone_id, is_in_zone) ==
    is_in_zone /\ zone_id \notin current_zones

EsSalidaSinMembresia(current_zones, zone_id, is_in_zone) ==
    ~is_in_zone

EsSalida(current_zones, zone_id, is_in_zone) ==
    ~is_in_zone /\ zone_id \in current_zones

check_zone_event(w, f, track_id, zone_id, is_in_zone, frame_number, timestamp_ms, position, faults) ==
    LET status0 == IF track_id \in DOMAIN w.track_zone_status
                   THEN w.track_zone_status
                   ELSE Put(w.track_zone_status, track_id, {})
        w0 == [w EXCEPT !.track_zone_status = status0]
        current_zones == status0[track_id]
        event(type) == [ zone_id |-> zone_id, track_id |-> track_id,
                         event_type |-> type, frame_number |-> frame_number,
                         timestamp_ms |-> timestamp_ms, position |-> position ]
    IN IF EsEntrada(current_zones, zone_id, is_in_zone)
       THEN LET w1 == [w0 EXCEPT !.track_zone_status[track_id] = @ \cup {zone_id}]
                r == write_zone_event(w1, f, event("enter"), faults)
            IN [r EXCEPT !.result = ~r.raised]
       ELSE IF EsSalida(current_zones, zone_id, is_in_zone)
       THEN LET w1 == [w0 EXCEPT !.track_zone_status[track_id] = @ \ {zone_id}]
                r == write_zone_event(w1, f, event("exit"), faults)
            IN [r EXCEPT !.result = ~r.raised]
       ELSE [ w |-> w0, f |-> f, raised |-> FALSE, result |-> FALSE ]

check_line_crossing(w, f, track_id, line_id, crossed_line, direction, frame_number, timestamp_ms, position, faults) ==
    LET crossing_key == << track_id, line_id >>
        event == [ track_id |-> track_id, line_id |-> line_id,
                   direction |-> direction, frame_number |-> frame_number,
                   timestamp_ms |-> timestamp_ms, position |-> position ]
    IN IF crossed_line /\ crossing_key \notin w.track_line_crossings
       THEN LET r == write_line_crossing(w, f, event, faults)
            IN IF r.raised THEN r
               ELSE [r EXCEPT !.w.track_line_crossings = @ \cup {crossing_key},
                              !.result = TRUE]
       ELSE [ w |-> w, f |-> f, raised |-> FALSE, result |-> FALSE ]

----------------------------------------------------------------------------
(* database/service.py: VideoAnalysisService.  A call is a record of its   *)
(* keyword arguments; binding it to the signature is part of the call.     *)

SaveZoneEventParams ==
    { "zone_id", "track_id", "event_type", "class_name", "confidence",
      "position", "timestamp_ms" }

SaveLineCrossingParams ==
    { "zone_id", "track_id", "direction", "class_name", "confidence",
      "position", "timestamp_ms" }

\* <<>> is None, <<id>> an id
get_zone_id_by_name(tables, zone_name, faults) ==
    LET found == SelectSeq(tables.zones, LAMBDA z : z.zone_name = zone_name)
    IN IF "db_cursor" \in faults THEN <<>>
       ELSE IF found = <<>> THEN <<>>
       ELSE << found[1].id >>

\* [tables, raised]: a TypeError when a keyword is not a parameter
save_zone_event(tables, kwargs, faults) ==
    IF ~(DOMAIN kwargs \subseteq SaveZoneEventParams)
    THEN [ tables |-> tables, raised |-> TRUE ]
    ELSE IF "db_cursor" \in faults
    THEN [ tables |-> tables, raised |-> FALSE ]
    ELSE [ tables |-> [tables EXCEPT !.zone_events = Append(@, kwargs)],
           raised |-> FALSE ]

save_line_crossing(tables, kwargs, faults) ==
    IF ~(DOMAIN kwargs \subseteq SaveLineCrossingParams)
    THEN [ tables |-> tables, raised |-> TRUE ]
    ELSE IF "db_cursor" \in faults
    THEN [ tables |-> tables, raised |-> FALSE ]
    ELSE [ tables |-> [tables EXCEPT !.line_crossing_events = Append(@, kwargs)],
           raised |-> FALSE ]

\* save_frame_detection stores nothing and returns True
save_frame_detection(tables, kwargs) == [ tables |-> tables, raised |-> FALSE ]

----------------------------------------------------------------------------
(* video_unified.py: the session set up by procesar_video_unificado        *)

TrailMaxLen == 30

\* cap.get(cv2.CAP_PROP_FPS) of the video
Fps == 25

TimestampMs(frame_number) == (frame_number * 1000) \div Fps

\* cargar_nombres_zonas on an old-format file: no custom name
zone_names == EmptyDict

PolygonZoneId(i) == Get(zone_names, <<"polygon", i>>, <<"zone_polygon", i>>)
LineZoneId(i) == Get(zone_names, <<"line", i>>, <<"zone_line", i>>)

\* zones_config_list: the polygons, then the lines, when a CSVWriter was created
zones_config_list(writer) ==
    IF writer = "CSVWriter"
    THEN [i \in 1..Len(Polygons) |->
             [zone_id |-> PolygonZoneId(i), zone_type |-> "polygon", coords |-> Polygons[i]]]
         \o
         [i \in 1..Len(Lines) |->
             [zone_id |-> LineZoneId(i), zone_type |-> "line", coords |-> Lines[i]]]
    ELSE <<>>

\* the mapping filled while the zones are added to the database
NewZoneNameMapping ==
    [k \in { <<"polygon", i>> : i \in 1..Len(Polygons) }
           \cup { <<"line", i>> : i \in 1..Len(Lines) } |->
        IF k[1] = "polygon" THEN PolygonZoneId(k[2]) ELSE LineZoneId(k[2])]

\* the zones table after db_service.add_zone of every polygon, then every line
NewDbZones ==
    [i \in 1..Len(Polygons) |->
        [id |-> <<"uuid", i>>, zone_name |-> PolygonZoneId(i), zone_type |-> "polygon"]]
    \o
    [i \in 1..Len(Lines) |->
        [id |-> <<"uuid", Len(Polygons) + i>>, zone_name |-> LineZoneId(i),
         zone_type |-> "line"]]

NewSession(zones_in_db) ==
    [ id_map |-> EmptyDict,
      next_id |-> 1,
      unique_object_ids |-> {},
      trail |-> EmptyDict,
      trayectorias |-> EmptyDict,
      ids_en_zona |-> EmptyDict,
      ids_cruzaron_linea |-> {},
      line_counters |-> [left_to_right |-> 0, right_to_left |-> 0],
      csv_writer |-> NewCSVWriter,
      csv_files |-> NewCSVFiles,
      db_calls |-> <<>>,
      db_tables |-> [ zones |-> IF zones_in_db THEN NewDbZones ELSE <<>>,
                      zone_events |-> <<>>,
                      line_crossing_events |-> <<>> ],
      error |-> FALSE ]

\* the session held in the variables
Session ==
    [ id_map |-> id_map,
      next_id |-> next_id,
      unique_object_ids |-> unique_object_ids,
      trail |-> trail,
      trayectorias |-> trayectorias,
      ids_en_zona |-> ids_en_zona,
      ids_cruzaron_linea |-> ids_cruzaron_linea,
      line_counters |-> line_counters,
      csv_writer |-> csv_writer,
      csv_files |-> csv_files,
      db_calls |-> db_calls,
      db_tables |-> db_tables,
      error |-> FALSE ]

----------------------------------------------------------------------------
(* video_unified.py: analizar_objeto_con_zonas.  d is the detection being  *)
(* analysed: [track_id, center, frame_number, timestamp_ms]                *)

Centro(box) == << (box[1] + box[3]) \div 2, (box[2] + box[4]) \div 2 >>

\* try: persistence_writer.check_zone_event(...)  except Exception: print
TryCheckZoneEventSinTry(s, zone_id, is_in_zone, d, faults) ==
    LET r == check_zone_event(s.csv_writer, s.csv_files, d.track_id, zone_id,
                              is_in_zone, d.frame_number, d.timestamp_ms,
                              d.center, faults)
    IN [s EXCEPT !.csv_writer = r.w, !.csv_files = r.f, !.error = r.raised]

TryCheckZoneEvent(s, zone_id, is_in_zone, d, faults) ==
    LET r == check_zone_event(s.csv_writer, s.csv_files, d.track_id, zone_id,
                              is_in_zone, d.frame_number, d.timestamp_ms,
                              d.center, faults)
    IN [s EXCEPT !.csv_writer = r.w, !.csv_files = r.f]

RECURSIVE GuardarEventoCSVLoop(_, _, _, _, _, _, _)
GuardarEventoCSVLoop(s, zones_config, j, poly, is_in_zone, d, faults) ==
    IF j > Len(zones_config) \/ s.error THEN s
    ELSE LET z == zones_config[j]
             s1 == IF z.zone_type = "polygon" /\ z.coords = poly
                   THEN TryCheckZoneEvent(s, z.zone_id, is_in_zone, d, faults)
                   ELSE s
         IN GuardarEventoCSVLoop(s1, zones_config, j + 1, poly, is_in_zone, d, faults)

\* if persistence_writer and zones_config: for zone_id, zone_type, zone_coords in ...
GuardarEventoCSV(s, poly, is_in_zone, d, faults) ==
    LET zones_config == zones_config_list(persistence_writer)
    IN IF persistence_writer = "CSVWriter" /\ zones_config # <<>>
       THEN GuardarEventoCSVLoop(s, zones_config, 1, poly, is_in_zone, d, faults)
       ELSE s

\* the lookup loop of the database blocks: the id of the first configured zone of
\* that type with these coordinates, <<>> when there is none
BuscarZoneId(s, zone_type, i, coords, faults) ==
    LET zones_config == zones_config_list(persistence_writer)
        found == SelectSeq(zones_config,
                           LAMBDA z : z.zone_type = zone_type /\ z.coords = coords)
        real_zone_name == Get(zone_name_mapping[1], <<zone_type, i>>, <<>>)
    IN IF found = <<>> THEN <<>>
       ELSE IF real_zone_name = <<>> THEN <<>>
       ELSE get_zone_id_by_name(s.db_tables, real_zone_name, faults)

\* db_service.save_zone_event(..., frame_number=frame_number) inside try/except
SubmitZoneEvent(s, zone_id, event_type, d, faults) ==
    LET kwargs == [ zone_id |-> zone_id[1], track_id |-> d.track_id,
                    event_type |-> event_type, class_name |-> "person",
                    confidence |-> 1, position |-> d.center,
                    timestamp_ms |-> d.timestamp_ms,
                    frame_number |-> d.frame_number ]
        call == [ fn |-> "save_zone_event", zone_id |-> zone_id[1],
                  track_id |-> d.track_id, kind |-> event_type,
                  frame_number |-> d.frame_number ]
        r == save_zone_event(s.db_tables, kwargs, faults)
    IN [s EXCEPT !.db_calls = Append(@, call), !.db_tables = r.tables]

\* if db_service: ... (entry block)
GuardarEntradaBD(s, i, poly, d, faults) ==
    IF db_service # "VideoAnalysisService" THEN s
    ELSE LET zone_id == BuscarZoneId(s, "polygon", i, poly, faults)
             real_zone_name == Get(zone_name_mapping[1], <<"polygon", i>>, <<>>)
             zone_id2 == IF real_zone_name = <<>> THEN <<>>
                         ELSE get_zone_id_by_name(s.db_tables, real_zone_name, faults)
         IN IF zone_id = <<>> \/ zone_id2 = <<>> THEN s
            ELSE SubmitZoneEvent(s, zone_id2, "enter", d, faults)

\* if db_service: ... (exit block)
GuardarSalidaBD(s, i, poly, d, faults) ==
    IF db_service # "VideoAnalysisService" THEN s
    ELSE LET zone_id == BuscarZoneId(s, "polygon", i, poly, faults)
         IN IF zone_id = <<>> THEN s
            ELSE SubmitZoneEvent(s, zone_id, "exit", d, faults)

EnZona(s, track_id, label) ==
    track_id \in DOMAIN s.ids_en_zona /\ label \in s.ids_en_zona[track_id]

\* one iteration of `for i, poly in enumerate(polygons)`
AnalizarPoligono(s, i, d, faults) ==
    LET poly == Polygons[i]
        label == <<"polygon", i>>
        is_in_zone == punto_en_poligono(d.center, poly)
    IN IF is_in_zone
       THEN LET s1 == [s EXCEPT !.ids_en_zona =
                          Put(@, d.track_id, Get(@, d.track_id, {}) \cup {label})]
                s2 == GuardarEventoCSV(s1, poly, TRUE, d, faults)
            IN IF s2.error THEN s2 ELSE GuardarEntradaBD(s2, i, poly, d, faults)
       ELSE IF EnZona(s, d.track_id, label)
       THEN LET s1 == [s EXCEPT !.ids_en_zona[d.track_id] = @ \ {label}]
                s2 == GuardarEventoCSV(s1, poly, FALSE, d, faults)
            IN IF s2.error THEN s2 ELSE GuardarSalidaBD(s2, i, poly, d, faults)
       ELSE s

RECURSIVE AnalizarPoligonos(_, _, _, _)
AnalizarPoligonos(s, i, d, faults) ==
    IF i > Len(Polygons) \/ s.error THEN s
    ELSE AnalizarPoligonos(AnalizarPoligono(s, i, d, faults), i + 1, d, faults)

\* cruza_linea(pts[-2], pts[-1], linea) and track_id not in ids_cruzaron_linea
DebeReportarCruceSinDedup(pts, linea, track_id, cruzaron) ==
    cruza_linea(pts[Len(pts) - 1], pts[Len(pts)], linea)

DebeReportarCruce(pts, linea, track_id, cruzaron) ==
    /\ cruza_linea(pts[Len(pts) - 1], pts[Len(pts)], linea)
    /\ track_id \notin cruzaron

\* direction = "left_to_right" if cx > prev_x else "right_to_left"
DireccionCruce(pts, center) ==
    LET prev_x == pts[Len(pts) - 1][1]
    IN IF center[1] > prev_x THEN "left_to_right" ELSE "right_to_left"

\* try: persistence_writer.check_line_crossing(...)  except Exception: print
TryCheckLineCrossing(s, line_id, direction, d, faults) ==
    LET r == check_line_crossing(s.csv_writer, s.csv_files, d.track_id, line_id,
                                 TRUE, direction, d.frame_number, d.timestamp_ms,
                                 d.center, faults)
    IN [s EXCEPT !.csv_writer = r.w, !.csv_files = r.f]

RECURSIVE GuardarCruceCSVLoop(_, _, _, _, _, _, _)
GuardarCruceCSVLoop(s, zones_config, j, linea, direction, d, faults) ==
    IF j > Len(zones_config) \/ s.error THEN s
    ELSE LET z == zones_config[j]
             s1 == IF z.zone_type = "line" /\ z.coords = linea
                   THEN TryCheckLineCrossing(s, z.zone_id, direction, d, faults)
                   ELSE s
         IN GuardarCruceCSVLoop(s1, zones_config, j + 1, linea, direction, d, faults)

GuardarCruceCSV(s, linea, direction, d, faults) ==
    LET zones_config == zones_config_list(persistence_writer)
    IN IF persistence_writer = "CSVWriter" /\ zones_config # <<>>
       THEN GuardarCruceCSVLoop(s, zones_config, 1, linea, direction, d, faults)
       ELSE s

\* if db_service: ... db_service.save_line_crossing(..., frame_number=frame_number)
GuardarCruceBD(s, i, linea, pts, d, faults) ==
    IF db_service # "VideoAnalysisService" THEN s
    ELSE LET zone_id == BuscarZoneId(s, "line", i, linea, faults)
             direction == DireccionCruce(pts, d.center)
             kwargs == [ zone_id |-> zone_id[1], track_id |-> d.track_id,
                         direction |-> direction, class_name |-> "person",
                         confidence |-> 1, position |-> d.center,
                         timestamp_ms |-> d.timestamp_ms,
                         frame_number |-> d.frame_number ]
             call == [ fn |-> "save_line_crossing", zone_id |-> zone_id[1],
                       track_id |-> d.track_id, kind |-> direction,
                       frame_number |-> d.frame_number ]
             r == save_line_crossing(s.db_tables, kwargs, faults)
         IN IF zone_id = <<>> THEN s
            ELSE [s EXCEPT !.db_calls = Append(@, call), !.db_tables = r.tables]

IncrementarSiempreSalidas(counters, direction) ==
    [counters EXCEPT !["left_to_right"] = @ + 1]

\* if direction == "left_to_right": line_counters['left_to_right'] += 1
\* else: line_counters['right_to_left'] += 1
IncrementarContador(counters, direction) ==
    IF direction = "left_to_right"
    THEN [counters EXCEPT !["left_to_right"] = @ + 1]
    ELSE [counters EXCEPT !["right_to_left"] = @ + 1]

\* one iteration of `for i, linea in enumerate(lines)`
AnalizarLinea(s, i, pts, d, faults) ==
    LET linea == Lines[i]
    IN IF DebeReportarCruce(pts, linea, d.track_id, s.ids_cruzaron_linea)
       THEN LET direction == DireccionCruce(pts, d.center)
                s1 == [s EXCEPT !.ids_cruzaron_linea = @ \cup {d.track_id},
                                !.line_counters = IncrementarContador(@, direction)]
                s2 == GuardarCruceCSV(s1, linea, direction, d, faults)
            IN IF s2.error THEN s2 ELSE GuardarCruceBD(s2, i, linea, pts, d, faults)
       ELSE s

RECURSIVE AnalizarLineas(_, _, _, _, _)
AnalizarLineas(s, i, pts, d, faults) ==
    IF i > Len(Lines) \/ s.error THEN s
    ELSE AnalizarLineas(AnalizarLinea(s, i, pts, d, faults), i + 1, pts, d, faults)

analizar_objeto_con_zonas(s, d, faults) ==
    LET s1 == [s EXCEPT !.trayectorias =
                  Put(@, d.track_id, Append(Get(@, d.track_id, <<>>), d.center))]
        pts == s1.trayectorias[d.track_id]
        s2 == AnalizarPoligonos(s1, 1, d, faults)
    IN IF s2.error \/ ~(Len(pts) > 1) THEN s2
       ELSE AnalizarLineas(s2, 1, pts, d, faults)

----------------------------------------------------------------------------
(* video_unified.py: the frame loop of procesar_video_unificado            *)

\* if oid not in id_map: id_map[oid] = next_id; next_id += 1
AsignarIdSinIncremento(s, oid) ==
    IF oid \notin DOMAIN s.id_map
    THEN [s EXCEPT !.id_map = Put(@, oid, s.next_id)]
    ELSE s

AsignarId(s, oid) ==
    IF oid \notin DOMAIN s.id_map
    THEN [s EXCEPT !.id_map = Put(@, oid, s.next_id), !.next_id = @ + 1]
    ELSE s

\* trail[stable_id].append((cx, cy)) on a deque(maxlen=30)
TrailAppend(tr, stable_id, center) ==
    Put(tr, stable_id, LastN(Append(Get(tr, stable_id, <<>>), center), TrailMaxLen))

\* if persistence_writer: try: persistence_writer.write_detection(...) except: print
TryWriteDetectionOmitida(s, d, faults) ==
    s

TryWriteDetection(s, d, faults) ==
    IF persistence_writer # "CSVWriter" THEN s
    ELSE LET r == write_detection(s.csv_writer, s.csv_files, d, faults)
         IN [s EXCEPT !.csv_writer = r.w, !.csv_files = r.f]

\* if db_service: try: db_service.save_frame_detection(...) except: print
\* (reading db_service while it is unbound raises)
TrySaveFrameDetection(s, d) ==
    IF db_service = "unbound" THEN [s EXCEPT !.error = TRUE]
    ELSE IF db_service = "VideoAnalysisService"
    THEN [s EXCEPT !.db_tables = save_frame_detection(@, d).tables]
    ELSE s

\* if enable_zones: analizar_objeto_con_zonas(..., zone_name_mapping=zone_name_mapping, ...)
\* (reading zone_name_mapping while it is unbound raises)
TryAnalizar(s, d, faults) ==
    IF ~enable_zones THEN s
    ELSE IF db_service = "unbound" \/ zone_name_mapping = <<>>
    THEN [s EXCEPT !.error = TRUE]
    ELSE analizar_objeto_con_zonas(s, d, faults)

\* the body of `for box, oid, conf, cls in zip(...)` for one detection
ProcesarDeteccion(s, det, frame_number, faults) ==
    LET s1 == AsignarId(s, det.oid)
        stable_id == s1.id_map[det.oid]
        center == Centro(det.box)
        d == [ track_id |-> stable_id, center |-> center,
               frame_number |-> frame_number,
               timestamp_ms |-> TimestampMs(frame_number) ]
        s2 == [s1 EXCEPT !.unique_object_ids = @ \cup {stable_id},
                         !.trail = TrailAppend(@, stable_id, center)]
        s3 == TryWriteDetection(s2, d, faults)
        s4 == TrySaveFrameDetection(s3, d)
    IN IF s4.error THEN s4 ELSE TryAnalizar(s4, d, faults)

RECURSIVE ProcesarDetecciones(_, _, _, _, _)
ProcesarDetecciones(s, dets, k, frame_number, faults) ==
    IF k > Len(dets) \/ s.error THEN s
    ELSE ProcesarDetecciones(ProcesarDeteccion(s, dets[k], frame_number, faults),
                             dets, k + 1, frame_number, faults)

\* the detections a tracker can list in one frame: pairwise distinct raw ids
FrameInputs(ids, boxes) ==
    UNION { UNION { { [k \in 1..Len(order) |-> [oid |-> order[k], box |-> bx[k]]]
                      : bx \in [1..Len(order) -> boxes] }
                    : order \in Orderings(present) }
            : present \in SUBSET ids }

----------------------------------------------------------------------------
(* tracking.py: the frame loop of realizar_tracking                        *)

MinApariciones == 5

NewTracking ==
    [ id_map |-> EmptyDict,
      next_id |-> 1,
      appear |-> EmptyDict,
      trail |-> EmptyDict,
      unique_person_ids |-> {},
      frame_count |-> 0 ]

\* if appear[oid] >= 5 and oid not in id_map
DebeConfirmarInmediato(apariciones, oid, mapa) ==
    oid \notin DOMAIN mapa

DebeConfirmar(apariciones, oid, mapa) ==
    apariciones >= MinApariciones /\ oid \notin DOMAIN mapa

TrackingDeteccion(t, det) ==
    LET oid == det.oid
        t1 == [t EXCEPT !.appear = Put(@, oid, Get(@, oid, 0) + 1)]
        t2 == IF DebeConfirmar(t1.appear[oid], oid, t1.id_map)
              THEN [t1 EXCEPT !.id_map = Put(@, oid, t1.next_id), !.next_id = @ + 1]
              ELSE t1
    IN IF oid \in DOMAIN t2.id_map
       THEN LET stable_id == t2.id_map[oid]
            IN [t2 EXCEPT !.unique_person_ids = @ \cup {stable_id},
                          !.trail = TrailAppend(@, stable_id, Centro(det.box))]
       ELSE t2

RECURSIVE TrackingDetecciones(_, _, _)
TrackingDetecciones(t, dets, k) ==
    IF k > Len(dets) THEN t
    ELSE TrackingDetecciones(TrackingDeteccion(t, dets[k]), dets, k + 1)

TrackingFrame(t, dets) ==
    TrackingDetecciones([t EXCEPT !.frame_count = @ + 1], dets, 1)

----------------------------------------------------------------------------
(* utils/file_manager.py: cargar_zonas_desde_json.  An entry of the file   *)
(* is [fmt |-> "list", value |-> coordinates] (old format) or              *)
(* [fmt |-> "dict", value |-> the dictionary] (new format)                 *)

\* line.get('coordinates', []) for a dictionary, the entry itself for a list
CoordenadasDeEntrada(entry) ==
    IF entry.fmt = "dict" THEN Get(entry.value, "coordinates", <<>>) ELSE entry.value

cargar_zonas_desde_json(data) ==
    LET lines_in == Get(data, "lines", <<>>)
        polygons_in == Get(data, "polygons", <<>>)
    IN [ lines |-> [i \in 1..Len(lines_in) |-> CoordenadasDeEntrada(lines_in[i])],
         polygons |->
            [i \in 1..Len(polygons_in) |-> CoordenadasDeEntrada(polygons_in[i])] ]

\* entries a file may list under "lines": 1, 2 or 3 points, in both formats
LineEntries ==
    { [fmt |-> "list", value |-> << <<0, 0>> >>],
      [fmt |-> "list", value |-> << <<0, 0>>, <<4, 0>> >>],
      [fmt |-> "list", value |-> << <<0, 0>>, <<4, 0>>, <<4, 4>> >>],
      [fmt |-> "dict", value |-> [coordinates |-> << <<0, 4>>, <<4, 4>> >>]],
      [fmt |-> "dict", value |-> [coordinates |-> << <<0, 4>> >>]],
      [fmt |-> "dict", value |-> [name |-> "entrada"]] }

\* entries a file may list under "polygons": 2, 3 or 4 points, in both formats
PolygonEntries ==
    { [fmt |-> "list", value |-> << <<0, 0>>, <<4, 0>> >>],
      [fmt |-> "list", value |-> << <<0, 0>>, <<4, 0>>, <<4, 4>> >>],
      [fmt |-> "list", value |-> << <<0, 0>>, <<4, 0>>, <<4, 4>>, <<0, 4>> >>],
      [fmt |-> "dict", value |-> [coordinates |-> << <<0, 0>>, <<4, 0>>, <<0, 4>> >>]],
      [fmt |-> "dict", value |-> [coordinates |-> << <<0, 0>>, <<4, 0>> >>]] }

SeqsUpTo(S, n) == UNION { [1..k -> S] : k \in 0..n }

\* the configuration files json.load can return
ZoneFiles ==
    [ lines : SeqsUpTo(LineEntries, MaxEntries),
      polygons : SeqsUpTo(PolygonEntries, MaxEntries) ]

\* the file whose old-format entries are the lines and polygons of the session
DefaultZonesJson ==
    [ lines |-> [i \in 1..Len(Lines) |-> [fmt |-> "list", value |-> Lines[i]]],
      polygons |->
         [i \in 1..Len(Polygons) |-> [fmt |-> "list", value |-> Polygons[i]]] ]

----------------------------------------------------------------------------
(* database/models.py and database/optimized_service.py:                   *)
(* OptimizedVideoAnalysisService                                           *)

\* Zone.validate_coordinates: the point count asked of each zone type
validate_coordinates(zone_type, v) ==
    IF zone_type = "line" THEN Len(v) = 2 ELSE Len(v) >= 3

\* Zone(..., coordinates=entry): coordinates: List[List[int]] and its validator
ZoneEsValida(zone_type, entry) ==
    entry.fmt = "list" /\ validate_coordinates(zone_type, entry.value)

NewOptimizedService ==
    [ current_analysis_id |-> <<>>,
      zones_cache |-> EmptyDict,
      track_zone_status |-> EmptyDict,
      track_positions |-> EmptyDict,
      frame_count |-> 0,
      total_detections |-> 0,
      unique_tracks |-> {},
      cache_keys |-> <<>>,
      analyses |-> 0,
      zones |-> <<>>,
      zone_events |-> <<>>,
      line_crossing_events |-> <<>>,
      raised |-> FALSE ]

\* one loop of _load_zones_from_config; the first invalid entry raises
RECURSIVE CargarZonasDeTipo(_, _, _, _)
CargarZonasDeTipo(svc, zone_type, entries, i) ==
    IF i > Len(entries) \/ svc.raised THEN svc
    ELSE IF ~ZoneEsValida(zone_type, entries[i])
    THEN [svc EXCEPT !.raised = TRUE]
    ELSE LET zone == [ id |-> <<"uuid", Len(svc.zones) + 1>>,
                       video_analysis_id |-> svc.current_analysis_id,
                       zone_name |-> <<zone_type, i>>,
                       zone_type |-> zone_type,
                       coordinates |-> entries[i].value ]
         IN CargarZonasDeTipo(
               [svc EXCEPT !.zones = Append(@, zone),
                           !.cache_keys =
                              IF zone.zone_name \in DOMAIN svc.zones_cache THEN @
                              ELSE Append(@, zone.zone_name),
                           !.zones_cache = Put(@, zone.zone_name, zone)],
               zone_type, entries, i + 1)

\* try: lines, then polygons; except Exception: logger.error
load_zones_from_config(svc, data) ==
    LET s1 == CargarZonasDeTipo(svc, "line", Get(data, "lines", <<>>), 1)
        s2 == IF s1.raised THEN s1
              ELSE CargarZonasDeTipo(s1, "polygon", Get(data, "polygons", <<>>), 1)
    IN [s2 EXCEPT !.raised = FALSE]

\* zones_file is <<>> (config.enable_zones falsy) or <<content of the file>>
start_analysis(svc, zones_file) ==
    LET s1 == [svc EXCEPT !.current_analysis_id = <<"analysis", svc.analyses + 1>>,
                          !.analyses = @ + 1]
        s2 == IF zones_file # <<>> THEN load_zones_from_config(s1, zones_file[1])
              ELSE s1
    IN [s2 EXCEPT !.frame_count = 0, !.total_detections = 0, !.unique_tracks = {},
                  !.track_zone_status = EmptyDict, !.track_positions = EmptyDict]

\* positions kept per track: `if len(...) > 5: pop(0)`
MaxPosiciones == 5

PosicionesInicialesConOrigen(track_id) == << <<0, 0>> >>

\* self.track_positions[track_id] = [] for a track not seen before
PosicionesIniciales(track_id) == <<>>

\* the first loop of process_frame_detections
RECURSIVE ActualizarPosiciones(_, _, _)
ActualizarPosiciones(svc, detections, k) ==
    IF k > Len(detections) THEN svc
    ELSE LET d == detections[k]
             before == Get(svc.track_positions, d.track_id, PosicionesIniciales(d.track_id))
         IN ActualizarPosiciones(
               [svc EXCEPT !.unique_tracks = @ \cup {d.track_id},
                           !.track_positions =
                              Put(@, d.track_id,
                                  LastN(Append(before, d.center), MaxPosiciones))],
               detections, k + 1)

analyze_polygon_zone_sin_marcar(svc, zone, d, frame_number, timestamp_ms) ==
    LET is_inside == punto_en_poligono(d.center, zone.coordinates)
        event == [ video_analysis_id |-> svc.current_analysis_id,
                   zone_id |-> zone.id, track_id |-> d.track_id,
                   event_type |-> "enter", frame_number |-> frame_number,
                   timestamp_ms |-> timestamp_ms, position |-> d.center ]
    IN IF is_inside THEN [svc EXCEPT !.zone_events = Append(@, event)] ELSE svc

analyze_polygon_zone_optimized(svc, zone, d, frame_number, timestamp_ms) ==
    LET current_status == Get(svc.track_zone_status[d.track_id], zone.id, "outside")
        is_inside == punto_en_poligono(d.center, zone.coordinates)
        event(event_type) ==
            [ video_analysis_id |-> svc.current_analysis_id,
              zone_id |-> zone.id, track_id |-> d.track_id,
              event_type |-> event_type, frame_number |-> frame_number,
              timestamp_ms |-> timestamp_ms, position |-> d.center ]
    IN IF is_inside /\ current_status = "outside"
       THEN [svc EXCEPT !.zone_events = Append(@, event("enter")),
                        !.track_zone_status[d.track_id] = Put(@, zone.id, "inside")]
       ELSE IF ~is_inside /\ current_status = "inside"
       THEN [svc EXCEPT !.zone_events = Append(@, event("exit")),
                        !.track_zone_status[d.track_id] = Put(@, zone.id, "outside")]
       ELSE svc

determine_crossing_direction(prev_pos, current_pos, line_coords) ==
    LET line_vector == << line_coords[2][1] - line_coords[1][1],
                          line_coords[2][2] - line_coords[1][2] >>
        movement_vector == << current_pos[1] - prev_pos[1],
                              current_pos[2] - prev_pos[2] >>
        cross_product == line_vector[1] * movement_vector[2]
                           - line_vector[2] * movement_vector[1]
    IN IF cross_product > 0 THEN "left_to_right" ELSE "right_to_left"

analyze_line_zone_optimized(svc, zone, d, frame_number, timestamp_ms) ==
    IF \/ d.track_id \notin DOMAIN svc.track_positions
       \/ Len(svc.track_positions[d.track_id]) < 2
    THEN svc
    ELSE LET positions == svc.track_positions[d.track_id]
             prev_pos == positions[Len(positions) - 1]
             current_pos == positions[Len(positions)]
             event == [ video_analysis_id |-> svc.current_analysis_id,
                        zone_id |-> zone.id, track_id |-> d.track_id,
                        direction |-> determine_crossing_direction(
                                         prev_pos, current_pos, zone.coordinates),
                        frame_number |-> frame_number,
                        timestamp_ms |-> timestamp_ms, position |-> d.center ]
         IN IF cruza_linea(prev_pos, current_pos, zone.coordinates)
            THEN [svc EXCEPT !.line_crossing_events = Append(@, event)]
            ELSE svc

\* `for zone in self.zones_cache.values()`, in insertion order
RECURSIVE AnalizarZonasOptimizado(_, _, _, _, _)
AnalizarZonasOptimizado(svc, z, d, frame_number, timestamp_ms) ==
    IF z > Len(svc.cache_keys) THEN svc
    ELSE LET zone == svc.zones_cache[svc.cache_keys[z]]
             s1 == IF zone.zone_type = "polygon"
                   THEN analyze_polygon_zone_optimized(svc, zone, d, frame_number,
                                                       timestamp_ms)
                   ELSE analyze_line_zone_optimized(svc, zone, d, frame_number,
                                                    timestamp_ms)
         IN AnalizarZonasOptimizado(s1, z + 1, d, frame_number, timestamp_ms)

RECURSIVE analyze_significant_events(_, _, _, _, _)
analyze_significant_events(svc, frame_number, timestamp_ms, detections, k) ==
    IF k > Len(detections) THEN svc
    ELSE LET d == detections[k]
             s1 == IF d.track_id \in DOMAIN svc.track_zone_status THEN svc
                   ELSE [svc EXCEPT !.track_zone_status = Put(@, d.track_id, EmptyDict)]
             s2 == AnalizarZonasOptimizado(s1, 1, d, frame_number, timestamp_ms)
         IN analyze_significant_events(s2, frame_number, timestamp_ms, detections,
                                       k + 1)

process_frame_detections(svc, frame_number, timestamp_ms, detections) ==
    IF svc.current_analysis_id = <<>> THEN svc
    ELSE LET s1 == [svc EXCEPT !.frame_count = @ + 1,
                               !.total_detections = @ + Len(detections)]
             s2 == ActualizarPosiciones(s1, detections, 1)
         IN analyze_significant_events(s2, frame_number, timestamp_ms, detections, 1)

\* success is what video_repo.update_analysis_status returned; a raise is caught
\* and, like False, leaves the state of the service as it is
complete_analysis(svc, success) ==
    IF svc.current_analysis_id = <<>> THEN svc
    ELSE IF success
    THEN [svc EXCEPT !.current_analysis_id = <<>>,
                     !.zones_cache = EmptyDict,
                     !.cache_keys = <<>>,
                     !.track_zone_status = EmptyDict,
                     !.track_positions = EmptyDict]
    ELSE svc

----------------------------------------------------------------------------
(* The state machine *)

\* the set-up of procesar_video_unificado before its frame loop
InitEngine(zones, persistence_available, csv_ok, database, database_available) ==
    LET \* the database try block is entered and reaches `zone_name_mapping = {}`
        db_started == persistence_available /\ database /\ database_available
        \* adding the zones reads zone_names, unbound when CSVWriter(...) raised
        db_ok == db_started /\ (csv_ok \/ ~zones)
    IN /\ pc = "loop"
       /\ frame_count = 0
       /\ enable_zones = zones
       /\ persistence_writer =
             IF persistence_available /\ csv_ok THEN "CSVWriter" ELSE "None"
       /\ db_service = IF ~persistence_available THEN "unbound"
                       ELSE IF db_ok THEN "VideoAnalysisService"
                       ELSE "None"
       /\ zone_name_mapping =
             IF db_ok /\ zones THEN << NewZoneNameMapping >>
             ELSE IF db_started THEN << EmptyDict >>
             ELSE <<>>
       /\ id_map = EmptyDict
       /\ next_id = 1
       /\ unique_object_ids = {}
       /\ trail = EmptyDict
       /\ trayectorias = EmptyDict
       /\ ids_en_zona = EmptyDict
       /\ ids_cruzaron_linea = {}
       /\ line_counters = [left_to_right |-> 0, right_to_left |-> 0]
       /\ csv_writer = NewCSVWriter
       /\ csv_files = NewCSVFiles
       /\ db_calls = <<>>
       /\ db_tables = NewSession(db_ok /\ zones).db_tables
       /\ ideal = NewSession(db_ok /\ zones)
       /\ tracking = NewTracking
       /\ video = <<>>

\* the set-up with the zones file of the session; nothing loaded or evaluated yet
InitConfig(zones, persistence_available, csv_ok, database, database_available) ==
    /\ InitEngine(zones, persistence_available, csv_ok, database, database_available)
    /\ zones_json = DefaultZonesJson
    /\ loaded = <<>>
    /\ opt = NewOptimizedService
    /\ geo = [op |-> "none"]

\* zones enabled, CSV persistence and database attached
Init == InitConfig(TRUE, TRUE, TRUE, TRUE, TRUE)

\* one pass of `while True:` that reads a frame and processes its detections
Frame(dets, faults) ==
    \E r \in { ProcesarDetecciones(Session, dets, 1, frame_count + 1, faults) } :
       /\ pc = "loop"
       /\ frame_count' = frame_count + 1
       /\ pc' = IF r.error THEN "crashed" ELSE "loop"
       /\ id_map' = r.id_map
       /\ next_id' = r.next_id
       /\ unique_object_ids' = r.unique_object_ids
       /\ trail' = r.trail
       /\ trayectorias' = r.trayectorias
       /\ ids_en_zona' = r.ids_en_zona
       /\ ids_cruzaron_linea' = r.ids_cruzaron_linea
       /\ line_counters' = r.line_counters
       /\ csv_writer' = r.csv_writer
       /\ csv_files' = r.csv_files
       /\ db_calls' = r.db_calls
       /\ db_tables' = r.db_tables
       /\ video' = Append(video, dets)
       /\ UNCHANGED << enable_zones, persistence_writer, db_service, zone_name_mapping,
                       zones_json, loaded, geo >>

\* a frame of a session with two entities
ProcesarFrame ==
    \E dets \in FrameInputs(RawIds, Boxes) :
        /\ frame_count < MaxFrames
        /\ Frame(dets, {})
        /\ UNCHANGED << tracking, ideal, opt >>

\* a frame of a session with a single entity
ProcesarFrameSolo ==
    \E dets \in FrameInputs(SoloIds, Boxes) :
        /\ frame_count < MaxFramesSolo
        /\ Frame(dets, {})
        /\ UNCHANGED << tracking, ideal, opt >>

\* a frame during which some sinks fail
ProcesarFrameFault ==
    \E dets \in FrameInputs(SoloIds, Boxes), faults \in SUBSET FaultSites :
        /\ frame_count < MaxFramesFault
        /\ Frame(dets, faults)
        /\ ideal' = ProcesarDetecciones(ideal, dets, 1, frame_count + 1, {})
        /\ UNCHANGED << tracking, opt >>

\* a frame of a video given to realizar_tracking and to procesar_video_unificado
ProcesarFrameTrack ==
    \E dets \in FrameInputs(RawIds, TrackBoxes) :
        /\ frame_count < MaxFramesTrack
        /\ Frame(dets, {})
        /\ tracking' = TrackingFrame(tracking, dets)
        /\ UNCHANGED << ideal, opt >>

\* cap.read() returns no frame: the loop ends
FinDeVideo ==
    /\ pc = "loop"
    /\ pc' = "done"
    /\ UNCHANGED << frame_count, enable_zones, persistence_writer, db_service,
                    zone_name_mapping, id_map, next_id, unique_object_ids, trail,
                    trayectorias, ids_en_zona, ids_cruzaron_linea, line_counters,
                    csv_writer, csv_files, db_calls, db_tables, ideal, tracking,
                    video, zones_json, loaded, opt, geo >>

Next == ProcesarFrame \/ FinDeVideo
Spec == Init /\ [][Next]_vars

NextSolo == ProcesarFrameSolo \/ FinDeVideo
SoloSpec == Init /\ [][NextSolo]_vars

NextFault == ProcesarFrameFault \/ FinDeVideo
FaultSpec == Init /\ [][NextFault]_vars

\* the default options of procesar_video_unificado: no zones, no database
InitTrack == InitConfig(FALSE, TRUE, TRUE, FALSE, TRUE)

NextTrack == ProcesarFrameTrack \/ FinDeVideo
TrackSpec == InitTrack /\ [][NextTrack]_vars

\* every combination of the options and of the availability of the modules
InitAnyConfig ==
    \E zones, persistence_available, csv_ok, database, database_available \in BOOLEAN :
        InitConfig(zones, persistence_available, csv_ok, database, database_available)

\* a frame of a session started with any configuration
ProcesarFrameConfig ==
    \E dets \in FrameInputs(SoloIds, Boxes) :
        /\ frame_count < MaxFramesConfig
        /\ Frame(dets, {})
        /\ UNCHANGED << tracking, ideal, opt >>

NextConfig == ProcesarFrameConfig \/ FinDeVideo
ConfigSpec == InitAnyConfig /\ [][NextConfig]_vars

engine_vars == << pc, frame_count, enable_zones, persistence_writer, db_service,
                  zone_name_mapping, id_map, next_id, unique_object_ids, trail,
                  trayectorias, ids_en_zona, ids_cruzaron_linea, line_counters,
                  csv_writer, csv_files, db_calls, db_tables, ideal, tracking,
                  video >>

\* a zones configuration file is about to be loaded
InitLoad ==
    /\ InitEngine(TRUE, TRUE, TRUE, TRUE, TRUE)
    /\ zones_json \in ZoneFiles
    /\ loaded = <<>>
    /\ opt = NewOptimizedService
    /\ geo = [op |-> "none"]

\* lines, polygons = cargar_zonas_desde_json(zones_config)
CargarZonas ==
    /\ loaded = <<>>
    /\ loaded' = << cargar_zonas_desde_json(zones_json) >>
    /\ UNCHANGED << engine_vars, zones_json, opt, geo >>

\* OptimizedVideoAnalysisService.start_analysis with the zones file configured
IniciarAnalisisOptimizado ==
    /\ opt.current_analysis_id = <<>>
    /\ opt' = start_analysis(opt, << zones_json >>)
    /\ UNCHANGED << engine_vars, zones_json, loaded, geo >>

NextLoad == CargarZonas \/ IniciarAnalisisOptimizado
LoadSpec == InitLoad /\ [][NextLoad]_vars

\* the points of the grid, and the motion of test_geometry_only.py's first case
GeoPoints == (0..GeoMax) \X (0..GeoMax)

CruceInputs ==
    { [linea |-> << a1, a2 >>, prev |-> p1, cur |-> p2] :
        a1 \in GeoPoints, a2 \in GeoPoints, p1 \in GeoPoints, p2 \in GeoPoints }
    \cup { [linea |-> << <<1003, 851>>, <<1666, 351>> >>,
            prev |-> <<1083, 911>>, cur |-> <<923, 791>>] }

\* the vertices of a rectangle, listed from its k-th vertex on
Rectangulo(x1, y1, x2, y2, k) ==
    LET base == << <<x1, y1>>, <<x2, y1>>, <<x2, y2>>, <<x1, y2>> >>
    IN [i \in 1..4 |-> base[((i + k - 2) % 4) + 1]]

PoligonoInputs ==
    { [rect |-> << x1, y1, x2, y2 >>, polygon |-> Rectangulo(x1, y1, x2, y2, k),
       point |-> << px, py >>] :
        x1 \in 0..GeoMax, y1 \in 0..GeoMax,
        x2 \in 2..(GeoMax + 2), y2 \in 2..(GeoMax + 2),
        k \in 1..4, px \in (0 - 1)..(GeoMax + 3), py \in (0 - 1)..(GeoMax + 3) }
    \cup { [rect |-> << 100, 100, 300, 300 >>,
            polygon |-> Rectangulo(100, 100, 300, 300, k), point |-> pt] :
             k \in 1..4, pt \in { <<200, 200>>, <<50, 50>> } }

\* a motion segment is tested against a line, as analizar_objeto_con_zonas and
\* test_geometry_only.py do
EvaluarCruce ==
    /\ geo.op = "none"
    /\ \E in \in CruceInputs :
        /\ geo' = [ op |-> "cruce", linea |-> in.linea, prev |-> in.prev,
                    cur |-> in.cur,
                    cruza |-> cruza_linea(in.prev, in.cur, in.linea),
                    cruza_inversa |-> cruza_linea(in.cur, in.prev, in.linea),
                    direccion |->
                       determinar_direccion_cruce(in.prev, in.cur, in.linea),
                    direccion_inversa |->
                       determinar_direccion_cruce(in.cur, in.prev, in.linea),
                    lado_prev |-> determinar_lado_del_punto(in.prev, in.linea),
                    lado_cur |-> determinar_lado_del_punto(in.cur, in.linea),
                    reporta |->
                       DebeReportarCruce(<< in.prev, in.cur >>, in.linea, 1, {}),
                    repite |->
                       DebeReportarCruce(<< in.prev, in.cur >>, in.linea, 1, {1}),
                    direccion_motor |-> DireccionCruce(<< in.prev, in.cur >>, in.cur) ]
        /\ UNCHANGED << engine_vars, zones_json, loaded, opt >>

\* a point is tested against a rectangular polygon
EvaluarPoligono ==
    /\ geo.op = "none"
    /\ \E in \in PoligonoInputs :
        /\ in.rect[1] < in.rect[3]
        /\ in.rect[2] < in.rect[4]
        /\ geo' = [ op |-> "poligono", rect |-> in.rect, polygon |-> in.polygon,
                    point |-> in.point,
                    inside |-> punto_en_poligono(in.point, in.polygon) ]
        /\ UNCHANGED << engine_vars, zones_json, loaded, opt >>

NextGeo == EvaluarCruce \/ EvaluarPoligono
GeoSpec == Init /\ [][NextGeo]_vars

\* a frame of a long session: the entity is detected again, at the same place
ProcesarFrameLong ==
    \E dets \in FrameInputs(SoloIds, TrackBoxes) \ { <<>> } :
        /\ frame_count < MaxFramesLong
        /\ Frame(dets, {})
        /\ UNCHANGED << tracking, ideal, opt >>

NextLong == ProcesarFrameLong \/ FinDeVideo
LongSpec == Init /\ [][NextLong]_vars

\* the engine and an optimized service started on the same zones file
InitOpt ==
    /\ InitEngine(TRUE, TRUE, TRUE, TRUE, TRUE)
    /\ zones_json = DefaultZonesJson
    /\ loaded = <<>>
    /\ opt = start_analysis(NewOptimizedService, << DefaultZonesJson >>)
    /\ geo = [op |-> "none"]

\* the detections of a frame as process_frame_detections takes them
DeteccionesOptimizado(dets, mapa) ==
    [k \in 1..Len(dets) |->
        [track_id |-> mapa[dets[k].oid], center |-> Centro(dets[k].box)]]

\* a frame given to the engine and, with the same stable ids, to the service
ProcesarFrameOpt ==
    \E dets \in FrameInputs(RawIds, Boxes) :
        /\ frame_count < MaxFramesOpt
        /\ Frame(dets, {})
        /\ opt' = process_frame_detections(opt, frame_count + 1,
                                           TimestampMs(frame_count + 1),
                                           DeteccionesOptimizado(dets, id_map'))
        /\ UNCHANGED << tracking, ideal >>

NextOpt == ProcesarFrameOpt \/ FinDeVideo
OptSpec == InitOpt /\ [][NextOpt]_vars

\* the same with a single entity, over more frames
ProcesarFrameOptSolo ==
    \E dets \in FrameInputs(SoloIds, Boxes) :
        /\ frame_count < MaxFramesOptSolo
        /\ Frame(dets, {})
        /\ opt' = process_frame_detections(opt, frame_count + 1,
                                           TimestampMs(frame_count + 1),
                                           DeteccionesOptimizado(dets, id_map'))
        /\ UNCHANGED << tracking, ideal >>

NextOptSolo == ProcesarFrameOptSolo \/ FinDeVideo
OptSoloSpec == InitOpt /\ [][NextOptSolo]_vars

\* the zones files of successive analyses: none, the session's, its first line only
ArchivosCiclo ==
    { <<>>, << DefaultZonesJson >>,
      << [ lines |-> SubSeq(DefaultZonesJson.lines, 1, 1), polygons |-> <<>> ] >> }

\* start_analysis, whether or not the previous analysis was completed
IniciarAnalisis ==
    /\ opt.analyses < MaxAnalisis
    /\ \E zones_file \in ArchivosCiclo :
          opt' = start_analysis(opt, zones_file)
    /\ UNCHANGED << engine_vars, zones_json, loaded, geo >>

\* process_frame_detections for a frame of the running analysis
ProcesarFrameCiclo ==
    /\ opt.current_analysis_id # <<>>
    /\ opt.frame_count < MaxFramesCiclo
    /\ \E dets \in FrameInputs(SoloIds, PermBoxes) :
          opt' = process_frame_detections(
                    opt, opt.frame_count + 1, TimestampMs(opt.frame_count + 1),
                    DeteccionesOptimizado(dets, [oid \in SoloIds |-> 1]))
    /\ UNCHANGED << engine_vars, zones_json, loaded, geo >>

\* complete_analysis, with update_analysis_status succeeding or not
CompletarAnalisis ==
    /\ opt.current_analysis_id # <<>>
    /\ \E success \in BOOLEAN : opt' = complete_analysis(opt, success)
    /\ UNCHANGED << engine_vars, zones_json, loaded, geo >>

NextCiclo == IniciarAnalisis \/ ProcesarFrameCiclo \/ CompletarAnalisis
CicloSpec == Init /\ [][NextCiclo]_vars

\* the detections of a frame listed in another order
Reordenar(dets, p) == [k \in 1..Len(dets) |-> dets[p[k]]]

\* a frame given to one session as listed and to a second session reordered
ProcesarFramePerm ==
    \E dets \in FrameInputs(RawIds, PermBoxes) :
        \E p \in Orderings(1..Len(dets)) :
            /\ frame_count < MaxFramesPerm
            /\ Frame(dets, {})
            /\ ideal' = ProcesarDetecciones(ideal, Reordenar(dets, p), 1,
                                            frame_count + 1, {})
            /\ UNCHANGED << tracking, opt >>

NextPerm == ProcesarFramePerm \/ FinDeVideo
PermSpec == Init /\ [][NextPerm]_vars

----------------------------------------------------------------------------
(* Vocabulary of the properties *)

Tracks == DOMAIN trayectorias

\* is the k-th observed position of track t inside polygon i
Dentro(t, i, k) == punto_en_poligono(trayectorias[t][k], Polygons[i])

\* the observed positions of t go outside+ inside+ outside+ with respect to polygon i
FueraDentroFuera(t, i) ==
    LET n == Len(trayectorias[t])
    IN \E a \in 1..n, b \in 1..n :
          /\ a < b
          /\ b < n
          /\ \A k \in 1..n : Dentro(t, i, k) <=> (a < k /\ k <= b)

SiempreFuera(t, i) == \A k \in 1..Len(trayectorias[t]) : ~Dentro(t, i, k)

\* membership changes of t in polygon i along its observed positions
Entradas(t, i) ==
    Cardinality({ k \in 1..Len(trayectorias[t]) :
                    Dentro(t, i, k) /\ (k = 1 \/ ~Dentro(t, i, k - 1)) })

Salidas(t, i) ==
    Cardinality({ k \in 2..Len(trayectorias[t]) :
                    ~Dentro(t, i, k) /\ Dentro(t, i, k - 1) })

\* the moves of t (k-th to k+1-th position) that cross line i
Cruces(t, i) ==
    { k \in 1..(Len(trayectorias[t]) - 1) :
        cruza_linea(trayectorias[t][k], trayectorias[t][k + 1], Lines[i]) }

\* rows of zone_events.csv about track t and polygon i, as event types
ZoneRows(t, i) ==
    LET rows == SelectSeq(csv_files.zone_events,
                          LAMBDA r : r.track_id = t /\ r.zone_id = PolygonZoneId(i))
    IN [k \in 1..Len(rows) |-> rows[k].event_type]

\* rows of line_crossing_events.csv about track t and line i
LineRows(t, i) ==
    SelectSeq(csv_files.line_crossing_events,
              LAMBDA r : r.track_id = t /\ r.line_id = LineZoneId(i))

DbZoneId(zone_type, i) ==
    IF zone_type = "polygon" THEN <<"uuid", i>> ELSE <<"uuid", Len(Polygons) + i>>

\* calls of save_zone_event about track t and polygon i, as event types
ZoneCalls(t, i) ==
    LET calls == SelectSeq(db_calls,
                           LAMBDA c : /\ c.fn = "save_zone_event"
                                      /\ c.track_id = t
                                      /\ c.zone_id = DbZoneId("polygon", i))
    IN [k \in 1..Len(calls) |-> calls[k].kind]

\* calls of save_line_crossing about track t and line i
LineCalls(t, i) ==
    SelectSeq(db_calls,
              LAMBDA c : /\ c.fn = "save_line_crossing"
                         /\ c.track_id = t
                         /\ c.zone_id = DbZoneId("line", i))

CountOf(seq, x) == Cardinality({ k \in 1..Len(seq) : seq[k] = x })

\* which observation of track t was made in frame f (0 when none yet)
IndiceObservacion(t, f) ==
    Cardinality({ g \in 1..f :
                    \E k \in 1..Len(video[g]) :
                       /\ video[g][k].oid \in DOMAIN id_map
                       /\ id_map[video[g][k].oid] = t })

Presente(oid, g) == \E k \in 1..Len(video[g]) : video[g][k].oid = oid

Injective(f) == \A a, b \in DOMAIN f : f[a] = f[b] => a = b

Range(f) == { f[x] : x \in DOMAIN f }

----------------------------------------------------------------------------
(* C1 *)

\* C1: when the observed positions of a track go outside -> inside (one or more
\* frames) -> outside of a polygon, zone_events.csv holds for that (track, zone)
\* pair exactly one 'enter' row followed by exactly one 'exit' row.
C1_UnaEntradaUnaSalida ==
    \A t \in Tracks : \A i \in 1..Len(Polygons) :
        FueraDentroFuera(t, i) => ZoneRows(t, i) = << "enter", "exit" >>

\* a track stayed two frames or more inside polygon 1 between two stays outside
C1_Witness ==
    \E t \in Tracks :
        /\ FueraDentroFuera(t, 1)
        /\ Cardinality({ k \in 1..Len(trayectorias[t]) : Dentro(t, 1, k) }) >= 2
        /\ ZoneRows(t, 1) = << "enter", "exit" >>

----------------------------------------------------------------------------
(* C2 *)

\* C2: for every (track, line) pair at most one line-crossing event is emitted,
\* to line_crossing_events.csv and to db_service.save_line_crossing, however many
\* moves of the track cross the line.
C2_UnCrucePorLinea ==
    \A t \in Tracks : \A i \in 1..Len(Lines) :
        /\ Len(LineRows(t, i)) <= 1
        /\ Len(LineCalls(t, i)) <= 1

\* a track crossed line 1 twice or more and one event was emitted for it
C2_Witness ==
    \E t \in Tracks :
        /\ Cardinality(Cruces(t, 1)) >= 2
        /\ Len(LineRows(t, 1)) = 1
        /\ Len(LineCalls(t, 1)) = 1

----------------------------------------------------------------------------
(* C3 *)

\* C3: every line-crossing event carries the direction given by the cross product
\* of the line vector and the motion vector (previous -> current position).
C3_DireccionPorProductoCruz ==
    \A i \in 1..Len(Lines) : \A t \in Tracks :
        \A n \in 1..Len(LineRows(t, i)) :
            LET r == LineRows(t, i)[n]
                k == IndiceObservacion(t, r.frame_number)
            IN r.direction =
                  determinar_direccion_cruce(trayectorias[t][k - 1],
                                             trayectorias[t][k], Lines[i])

----------------------------------------------------------------------------
(* C4 *)

\* C4: the deduplication is keyed by (track, line): the first move of a track that
\* crosses line i is reported, whatever other lines the track crossed before, so
\* every line a track has crossed has an event for that track.
C4_DedupPorEntidadYLinea ==
    \A t \in Tracks : \A i \in 1..Len(Lines) :
        Cruces(t, i) # {} => Len(LineRows(t, i)) >= 1

----------------------------------------------------------------------------
(* C5 *)

\* C5: a track whose observed positions are all outside a polygon has no 'enter'
\* and no 'exit' event for it, in zone_events.csv or in the database calls; and a
\* first check_zone_event call for a track with is_in_zone = False writes nothing.
C5_FueraSinEventos ==
    /\ \A t \in Tracks : \A i \in 1..Len(Polygons) :
          SiempreFuera(t, i) => ZoneRows(t, i) = <<>> /\ ZoneCalls(t, i) = <<>>
    /\ \A t \in 1..next_id : \A i \in 1..Len(Polygons) :
          t \notin DOMAIN csv_writer.track_zone_status =>
             LET r == check_zone_event(csv_writer, csv_files, t, PolygonZoneId(i),
                                       FALSE, frame_count + 1,
                                       TimestampMs(frame_count + 1), <<3, 4>>, {})
             IN r.f = csv_files /\ ~r.result

\* a track seen twice or more, never inside polygon 1, that entered polygon 2
C5_Witness ==
    \E t \in Tracks :
        /\ Len(trayectorias[t]) >= 2
        /\ SiempreFuera(t, 1)
        /\ ZoneRows(t, 1) = <<>>
        /\ ZoneRows(t, 2) # <<>>

----------------------------------------------------------------------------
(* C6 *)

\* C6: db_service.save_zone_event is called once per membership change of a
\* (track, polygon) pair: as many 'enter' calls as outside -> inside changes and
\* as many 'exit' calls as inside -> outside changes.
C6_UnaLlamadaPorTransicion ==
    \A t \in Tracks : \A i \in 1..Len(Polygons) :
        /\ CountOf(ZoneCalls(t, i), "enter") = Entradas(t, i)
        /\ CountOf(ZoneCalls(t, i), "exit") = Salidas(t, i)

----------------------------------------------------------------------------
(* C7 *)

\* a raw -> stable map with its counter: injective, counter = assigned + 1
MapaSano(mapa, siguiente) ==
    /\ Injective(mapa)
    /\ siguiente = Cardinality(DOMAIN mapa) + 1

\* a step of a raw -> stable map: entries kept, new stable ids above all earlier
PasoMonotono(mapa, mapa2) ==
    /\ \A oid \in DOMAIN mapa : oid \in DOMAIN mapa2 /\ mapa2[oid] = mapa[oid]
    /\ \A oid \in DOMAIN mapa2 \ DOMAIN mapa :
          \A prev \in DOMAIN mapa : mapa2[oid] > mapa[prev]

\* C7: in procesar_video_unificado and in realizar_tracking the raw -> stable map
\* stays injective with next_id = number of assigned ids + 1, a raw id keeps its
\* stable id once assigned, and every new stable id is strictly greater than all
\* stable ids assigned before it.
C7_MapaInyectivoEstableMonotono ==
    [][ /\ MapaSano(id_map', next_id')
        /\ MapaSano(tracking'.id_map, tracking'.next_id)
        /\ PasoMonotono(id_map, id_map')
        /\ PasoMonotono(tracking.id_map, tracking'.id_map) ]_vars

\* both functions assigned stable ids to two raw ids, in different frames
C7_Witness ==
    /\ Range(id_map) = {1, 2}
    /\ Range(tracking.id_map) = {1, 2}
    /\ \E g \in 1..Len(video) : Len(video[g]) = 1

----------------------------------------------------------------------------
(* C8 *)

\* C8: realizar_tracking assigns a stable id to a raw id in frame f only if the raw
\* id was observed in frame f and in each of the 4 frames before it.
C8_CincoFramesConsecutivos ==
    [][ \A oid \in DOMAIN tracking'.id_map \ DOMAIN tracking.id_map :
           /\ Len(video') >= MinApariciones
           /\ \A g \in (Len(video') - MinApariciones + 1)..Len(video') :
                 \E k \in 1..Len(video'[g]) : video'[g][k].oid = oid ]_vars

----------------------------------------------------------------------------
(* C9 *)

Membresia(iz, t) == Get(iz, t, {})

\* the step changes no zone membership and reports no line crossing
SinEvento ==
    /\ \A t \in DOMAIN ids_en_zona \cup DOMAIN ids_en_zona' :
          Membresia(ids_en_zona', t) = Membresia(ids_en_zona, t)
    /\ ids_cruzaron_linea' = ids_cruzaron_linea

\* the detections of the frame the step processes
DeteccionesDelPaso == IF video' = video THEN <<>> ELSE video'[Len(video')]

----------------------------------------------------------------------------
(* C10 *)

\* the state the detection engine keeps for itself
Motor(s) ==
    [ id_map |-> s.id_map,
      next_id |-> s.next_id,
      unique_object_ids |-> s.unique_object_ids,
      trail |-> s.trail,
      trayectorias |-> s.trayectorias,
      ids_en_zona |-> s.ids_en_zona,
      ids_cruzaron_linea |-> s.ids_cruzaron_linea,
      line_counters |-> s.line_counters ]

----------------------------------------------------------------------------
(* C11 *)

\* C11: whatever the enable_zones and enable_database options and the availability
\* of the persistence and database modules, no error leaves the frame loop of
\* procesar_video_unificado once it has started.
C11_BucleSinExcepcion ==
    pc = "crashed" => frame_count = 0

----------------------------------------------------------------------------
(* C12 *)

\* C12: cargar_zonas_desde_json never returns a line that does not have exactly 2
\* points nor a polygon with fewer than 3 points.
C12_GeometriaInvalidaRechazada ==
    loaded # <<>> =>
       /\ \A i \in 1..Len(loaded[1].lines) : Len(loaded[1].lines[i]) = 2
       /\ \A i \in 1..Len(loaded[1].polygons) : Len(loaded[1].polygons[i]) >= 3

----------------------------------------------------------------------------
(* C13 *)

EntradasEnLista(entries) == \A i \in 1..Len(entries) : entries[i].fmt = "list"

\* C13: after _load_zones_from_config of a file of plain coordinate lists, the
\* entries with a wrong point count are not in zones_cache and every entry with a
\* right point count is, whether it is listed before or after a malformed one.
C13_ZonasValidasCargadas ==
    ( /\ opt.current_analysis_id # <<>>
      /\ EntradasEnLista(zones_json.lines)
      /\ EntradasEnLista(zones_json.polygons) ) =>
       /\ \A i \in 1..Len(zones_json.lines) :
             validate_coordinates("line", zones_json.lines[i].value)
                <=> << "line", i >> \in DOMAIN opt.zones_cache
       /\ \A i \in 1..Len(zones_json.polygons) :
             validate_coordinates("polygon", zones_json.polygons[i].value)
                <=> << "polygon", i >> \in DOMAIN opt.zones_cache

----------------------------------------------------------------------------
(* C14 *)

\* C14: whenever cruza_linea(p1, p2, line) is true, determinar_direccion_cruce for
\* the reversed motion p2 -> p1 is the opposite of the one for p1 -> p2.
C14_InvertirMovimientoInvierteDireccion ==
    (geo.op = "cruce" /\ geo.cruza) => geo.direccion # geo.direccion_inversa

\* a crossing of an oblique line, left_to_right one way and right_to_left back
C14_Witness ==
    /\ geo.op = "cruce"
    /\ geo.cruza
    /\ geo.linea[1][1] # geo.linea[2][1]
    /\ geo.linea[1][2] # geo.linea[2][2]
    /\ geo.direccion = "left_to_right"
    /\ geo.direccion_inversa = "right_to_left"

----------------------------------------------------------------------------
(* C15 *)

EsEscenarioC15 ==
    /\ geo.op = "cruce"
    /\ geo.linea = << <<1003, 851>>, <<1666, 351>> >>
    /\ geo.prev = <<1083, 911>>
    /\ geo.cur = <<923, 791>>

\* C15: for the line [(1003,851),(1666,351)] and the motion (1083,911) -> (923,791),
\* cruza_linea reports a crossing, the positions lie on different sides (right,
\* then left), the direction is right_to_left, and the engine reports the crossing
\* once, with direction right_to_left.
C15_EscenarioDerechaIzquierda ==
    EsEscenarioC15 =>
       /\ geo.cruza
       /\ geo.lado_prev = "derecha"
       /\ geo.lado_cur = "izquierda"
       /\ geo.direccion = "right_to_left"
       /\ geo.reporta
       /\ ~geo.repite
       /\ geo.direccion_motor = "right_to_left"

\* the scenario was evaluated and gave a crossing
C15_Witness ==
    EsEscenarioC15 /\ geo.cruza /\ geo.reporta

----------------------------------------------------------------------------
(* C16 *)

EstrictamenteDentro(point, rect) ==
    /\ rect[1] < point[1] /\ point[1] < rect[3]
    /\ rect[2] < point[2] /\ point[2] < rect[4]

EstrictamenteFuera(point, rect) ==
    \/ point[1] < rect[1] \/ point[1] > rect[3]
    \/ point[2] < rect[2] \/ point[2] > rect[4]

\* C16: for an axis-aligned rectangle with integer vertices, listed from any of its
\* vertices, punto_en_poligono is true for the integer points strictly inside it
\* and false for those strictly outside; (200,200) is inside and (50,50) outside
\* of [(100,100),(300,100),(300,300),(100,300)].
C16_RectanguloDentroFuera ==
    geo.op = "poligono" =>
       /\ EstrictamenteDentro(geo.point, geo.rect) => geo.inside
       /\ EstrictamenteFuera(geo.point, geo.rect) => ~geo.inside
       /\ (geo.rect = <<100, 100, 300, 300>> /\ geo.point = <<200, 200>>) => geo.inside
       /\ (geo.rect = <<100, 100, 300, 300>> /\ geo.point = <<50, 50>>) => ~geo.inside

\* the rectangle of the scenario, listed from another vertex, holds (200,200)
C16_Witness ==
    /\ geo.op = "poligono"
    /\ geo.polygon = << <<300, 300>>, <<100, 300>>, <<100, 100>>, <<300, 100>> >>
    /\ geo.point = <<200, 200>>
    /\ geo.inside

----------------------------------------------------------------------------
(* C17 *)

\* the number of frames read so far that listed the raw id
Apariciones(oid) == Cardinality({ g \in 1..Len(video) : Presente(oid, g) })

\* C17: in realizar_tracking a raw id observed in fewer than 5 frames in total has
\* no stable id, and the confirmed unique ids and the trajectories only hold
\* stable ids that were assigned, so nothing exists for such a raw id.
C17_MenosDeCincoSinId ==
    /\ \A oid \in RawIds :
          Apariciones(oid) < MinApariciones => oid \notin DOMAIN tracking.id_map
    /\ tracking.unique_person_ids = Range(tracking.id_map)
    /\ DOMAIN tracking.trail = Range(tracking.id_map)

\* after 6 frames one raw id was seen 4 times and has nothing, the other has an id
C17_Witness ==
    /\ Len(video) = 6
    /\ \E a, b \in RawIds :
          /\ Apariciones(a) = 4
          /\ a \notin DOMAIN tracking.id_map
          /\ b \in DOMAIN tracking.id_map
          /\ tracking.unique_person_ids = { tracking.id_map[b] }
          /\ DOMAIN tracking.trail = { tracking.id_map[b] }

----------------------------------------------------------------------------
(* C18 *)

\* C18: the position history from which the line-crossing detector takes its
\* previous/current pair (trayectorias[track_id]) never holds more than 30
\* positions.
C18_HistorialAcotado ==
    \A t \in Tracks : Len(trayectorias[t]) <= TrailMaxLen

----------------------------------------------------------------------------
(* C19 *)

\* line-crossing events the optimized service created for track t
CrucesOptimizado(t) ==
    SelectSeq(opt.line_crossing_events, LAMBDA e : e.track_id = t)

\* C19: while a track has been observed only once, no line-crossing event exists
\* for it: not in the engine (crossed set, CSV rows, database calls) and not in
\* OptimizedVideoAnalysisService.
C19_SinCruceEnPrimeraObservacion ==
    \A t \in Tracks :
        Len(trayectorias[t]) < 2 =>
           /\ t \notin ids_cruzaron_linea
           /\ \A i \in 1..Len(Lines) : LineRows(t, i) = <<>> /\ LineCalls(t, i) = <<>>
           /\ CrucesOptimizado(t) = <<>>

\* a track seen once, beyond both lines, while another track has crossed a line
C19_Witness ==
    \E t, u \in Tracks :
        /\ Len(trayectorias[t]) = 1
        /\ trayectorias[t][1] = <<3, 4>>
        /\ u \in ids_cruzaron_linea
        /\ CrucesOptimizado(u) # <<>>
        /\ CrucesOptimizado(t) = <<>>

----------------------------------------------------------------------------
(* C20 *)

\* the crossings emitted so far in direction dir, as rows of line_crossing_events.csv
CrucesEmitidos(dir) ==
    SelectSeq(csv_files.line_crossing_events, LAMBDA r : r.direction = dir)

\* C20: at every point of a session the two counters of line_counters add up to
\* the number of crossings emitted, which is the size of ids_cruzaron_linea, and
\* each counter equals the number of crossings emitted in its own direction.
C20_ContadoresConsistentes ==
    /\ line_counters["left_to_right"] + line_counters["right_to_left"]
          = Cardinality(ids_cruzaron_linea)
    /\ Cardinality(ids_cruzaron_linea) = Len(csv_files.line_crossing_events)
    /\ \A dir \in {"left_to_right", "right_to_left"} :
          line_counters[dir] = Len(CrucesEmitidos(dir))

\* two tracks have crossed, one in each direction
C20_Witness ==
    /\ line_counters["left_to_right"] = 1
    /\ line_counters["right_to_left"] = 1
    /\ Cardinality(ids_cruzaron_linea) = 2

----------------------------------------------------------------------------
(* C21 *)

\* the events of a session, without their order: rows of the two event files
\* and calls to the database
EventosDe(files, calls) ==
    [ zone_events |-> { files.zone_events[k] : k \in 1..Len(files.zone_events) },
      line_crossing_events |->
          { files.line_crossing_events[k] : k \in 1..Len(files.line_crossing_events) },
      db_calls |-> { calls[k] : k \in 1..Len(calls) } ]

\* C21: a session fed the same frames with the detections of each frame in
\* another order emits the same zone and line-crossing events, stable ids
\* included.
C21_EventosSinOrden ==
    EventosDe(csv_files, db_calls) = EventosDe(ideal.csv_files, ideal.db_calls)

----------------------------------------------------------------------------
(* C22 *)

\* the sign of the orientation of C with respect to the directed line A -> B
Orientacion(A, B, C) ==
    LET cross == (B[1] - A[1]) * (C[2] - A[2]) - (B[2] - A[2]) * (C[1] - A[1])
    IN IF cross > 0 THEN 1 ELSE IF cross < 0 THEN 0 - 1 ELSE 0

\* P and Q lie strictly on opposite sides of the line through A and B
LadosOpuestos(A, B, P, Q) == Orientacion(A, B, P) * Orientacion(A, B, Q) < 0

\* C22: cruza_linea(p1, p2, line) is true exactly when the endpoints of the line
\* lie strictly on opposite sides of the motion segment and the endpoints of the
\* motion segment lie strictly on opposite sides of the line; with any of the four
\* orientation tests collinear no crossing is reported.
C22_CruceEstricto ==
    geo.op = "cruce" =>
       (geo.cruza <=> /\ LadosOpuestos(geo.prev, geo.cur, geo.linea[1], geo.linea[2])
                      /\ LadosOpuestos(geo.linea[1], geo.linea[2], geo.prev, geo.cur))

----------------------------------------------------------------------------
(* C23 *)

\* C23: whenever cruza_linea(p1, p2, line) is true, determinar_lado_del_punto gives
\* different sides for p1 and p2; a motion that stays on one side is no crossing.
C23_CruceImplicaCambioDeLado ==
    (geo.op = "cruce" /\ geo.cruza) => geo.lado_prev # geo.lado_cur

\* a crossing that ends exactly on the line: the sides still differ
C23_Witness ==
    /\ geo.op = "cruce"
    /\ geo.cruza
    /\ Orientacion(geo.linea[1], geo.linea[2], geo.cur) = 0
    /\ geo.lado_prev = "derecha"
    /\ geo.lado_cur = "izquierda"

----------------------------------------------------------------------------
(* C24 *)

\* C24: when the previous and the current position are on different sides of the
\* line, determinar_direccion_cruce gives right_to_left exactly for a change from
\* derecha to izquierda and left_to_right exactly for izquierda to derecha.
C24_DireccionSegunCambioDeLado ==
    (geo.op = "cruce" /\ geo.lado_prev # geo.lado_cur) =>
       /\ geo.direccion = "right_to_left" <=>
             (geo.lado_prev = "derecha" /\ geo.lado_cur = "izquierda")
       /\ geo.direccion = "left_to_right" <=>
             (geo.lado_prev = "izquierda" /\ geo.lado_cur = "derecha")

\* a change from izquierda to derecha across an oblique line, without a crossing of
\* the segment
C24_Witness ==
    /\ geo.op = "cruce"
    /\ geo.lado_prev = "izquierda"
    /\ geo.lado_cur = "derecha"
    /\ geo.direccion = "left_to_right"
    /\ geo.linea[1][1] # geo.linea[2][1]
    /\ geo.linea[1][2] # geo.linea[2][2]
    /\ ~geo.cruza

----------------------------------------------------------------------------
(* C26 *)

\* C26: cruza_linea(p1, p2, line) = cruza_linea(p2, p1, line) for all points and
\* lines.
C26_CruceSimetrico ==
    geo.op = "cruce" => (geo.cruza <=> geo.cruza_inversa)

----------------------------------------------------------------------------
(* C25 *)

\* line-crossing events the optimized service created for track t and zone z
CrucesOptimizadoEnZona(t, z) ==
    SelectSeq(opt.line_crossing_events,
              LAMBDA e : e.track_id = t /\ e.zone_id = z)

\* C25: within one analysis the optimized service creates at most one
\* line-crossing event for a given track and line zone.
C25_UnCrucePorTrackYLinea ==
    \A t \in opt.unique_tracks :
        \A k \in 1..Len(opt.zones) :
            Len(CrucesOptimizadoEnZona(t, opt.zones[k].id)) <= 1

----------------------------------------------------------------------------
(* C27 *)

\* enter, exit, enter, ... starting with enter
Alterna(types) ==
    \A k \in 1..Len(types) : types[k] = (IF k % 2 = 1 THEN "enter" ELSE "exit")

\* zone events the optimized service created for track t and zone z, as event types
ZoneEventsOptimizado(t, z) ==
    LET evs == SelectSeq(opt.zone_events, LAMBDA e : e.track_id = t /\ e.zone_id = z)
    IN [k \in 1..Len(evs) |-> evs[k].event_type]

\* the membership flag CSVWriter keeps for track t and polygon i
DentroSegunCSV(t, i) ==
    /\ t \in DOMAIN csv_writer.track_zone_status
    /\ PolygonZoneId(i) \in csv_writer.track_zone_status[t]

\* the membership flag the optimized service keeps for track t and zone z
DentroSegunOptimizado(t, z) ==
    /\ t \in DOMAIN opt.track_zone_status
    /\ Get(opt.track_zone_status[t], z, "outside") = "inside"

UltimoEsEnter(types) == types # <<>> /\ types[Len(types)] = "enter"

----------------------------------------------------------------------------
(* C28 *)

\* the zones CSVWriter holds track t to be in
ZonasSegunCSV(w, t) == Get(w.track_zone_status, t, {})

\* C28: CSVWriter changes its membership and crossing state only for events whose
\* row was written: a frame that adds no row to zone_events.csv leaves
\* track_zone_status as it was, and a frame that adds no row to
\* line_crossing_events.csv leaves track_line_crossings as it was, also when
\* write_zone_event or write_line_crossing raises.
C28_EstadoSoloSiEscrito ==
    [][ /\ Len(csv_files'.zone_events) = Len(csv_files.zone_events) =>
             \A t \in DOMAIN csv_writer'.track_zone_status :
                 ZonasSegunCSV(csv_writer', t) = ZonasSegunCSV(csv_writer, t)
        /\ Len(csv_files'.line_crossing_events) = Len(csv_files.line_crossing_events) =>
             csv_writer'.track_line_crossings = csv_writer.track_line_crossings
      ]_vars

----------------------------------------------------------------------------
(* C29 *)

\* the rows of a file carry pairwise distinct ids
IdsDistintos(rows) ==
    \A j, k \in 1..Len(rows) : j # k => rows[j].id # rows[k].id

\* C29: every row of zone_events.csv has an id distinct from every other row of
\* the file, and likewise for line_crossing_events.csv.
C29_IdsUnicos ==
    /\ IdsDistintos(csv_files.zone_events)
    /\ IdsDistintos(csv_files.line_crossing_events)

----------------------------------------------------------------------------
(* C30 *)

\* the zone row with the given id
ZonaPorId(z) == CHOOSE zone \in { opt.zones[k] : k \in 1..Len(opt.zones) } : zone.id = z

\* C30: while an analysis is running zones_cache holds only zones created for it,
\* whatever calls came before, and no event is attributed to a zone of another
\* analysis.
C30_CacheSoloDelAnalisisActual ==
    /\ opt.current_analysis_id # <<>> =>
          \A name \in DOMAIN opt.zones_cache :
              opt.zones_cache[name].video_analysis_id = opt.current_analysis_id
    /\ \A k \in 1..Len(opt.zone_events) :
          ZonaPorId(opt.zone_events[k].zone_id).video_analysis_id
             = opt.zone_events[k].video_analysis_id
    /\ \A k \in 1..Len(opt.line_crossing_events) :
          ZonaPorId(opt.line_crossing_events[k].zone_id).video_analysis_id
             = opt.line_crossing_events[k].video_analysis_id

============================================================================
